---- MODULE Spec2Model ----
(***************************************************************************)
(* Model of the rustdoro Pomodoro timer (src/rustdoro/src/timer.rs).       *)
(*                                                                         *)
(* The Timer struct is the record `timer`; every method of `impl Timer`    *)
(* is an operator from a Timer record (and, where the method reads         *)
(* Instant::now(), the clock reading) to the Timer record it leaves        *)
(* behind.  Time is counted in whole seconds.  Option<Instant> is the      *)
(* empty set (None) or a singleton (Some(x)).                              *)
(***************************************************************************)
EXTENDS Integers, FiniteSets, Sequences, TLC

\* ------------------------------------------------------------------ bounds
\* Largest work duration drawn for a timer, in seconds.
MaxWork == 5
\* Largest short/long break duration drawn for a timer, in seconds.
MaxBreak == 2
\* Largest long-break cadence drawn for a timer.
MaxCadence == 2
\* The monotonic clock stops advancing at this reading.
MaxNow == 6
\* Largest clock advance between two calls, in seconds.
MaxStep == 3
\* Work sessions completed before the model stops completing work sessions.
MaxPomodoros == 2

\* ------------------------------------------------------- Option<Instant>
None == {}

Some(x) == {x}

Unwrap(o) == CHOOSE x \in o : TRUE

\* Instant::duration_since: the time from `earlier` to `later`, and zero when
\* `earlier` is the later of the two.
duration_since(later, earlier) ==
    IF later >= earlier THEN later - earlier ELSE 0

\* The subtraction of Durations, which has no result below zero (the `-` and
\* `-=` operators panic then).
checked_sub(a, b) ==
    IF a >= b THEN Some(a - b) ELSE None

\* Seconds in a minute: Timer::new turns the minutes of the Config into
\* Durations of seconds, and get_display_time splits the seconds by it.
SecsPerMinute == 60

\* ------------------------------------------------------------ enum types
SessionType == {"Work", "ShortBreak", "LongBreak"}

TimerState == {"Running", "Paused", "Stopped"}

\* Timer::new that loads the short break's duration as the first phase's
\* remaining time.
new_short_budget(config) ==
    [ current_session            |-> "Work",
      remaining_time             |-> config.short_break_duration,
      state                      |-> "Stopped",
      work_duration              |-> config.work_duration,
      short_break_duration       |-> config.short_break_duration,
      long_break_duration        |-> config.long_break_duration,
      pomodoros_completed        |-> 0,
      last_update_time           |-> None,
      break_count                |-> 0,
      long_break_after_pomodoros |-> config.long_break_after_pomodoros ]

\* ------------------------------------------------------------ Timer::new
\* `config` carries the three durations (already in seconds) and the cadence.
new(config) ==
    [ current_session            |-> "Work",
      remaining_time             |-> config.work_duration,
      state                      |-> "Stopped",
      work_duration              |-> config.work_duration,
      short_break_duration       |-> config.short_break_duration,
      long_break_duration        |-> config.long_break_duration,
      pomodoros_completed        |-> 0,
      last_update_time           |-> None,
      break_count                |-> 0,
      long_break_after_pomodoros |-> config.long_break_after_pomodoros ]

\* start() that always begins a work session.
start_begins_work(t, clock) ==
    [t EXCEPT !.state = "Running",
              !.last_update_time = Some(clock),
              !.current_session = "Work",
              !.remaining_time = t.work_duration]

\* start() that restarts the phase: it reloads the phase's full duration.
start_reloads(t, clock) ==
    [t EXCEPT !.state = "Running",
              !.last_update_time = Some(clock),
              !.remaining_time =
                  CASE t.current_session = "Work"       -> t.work_duration
                    [] t.current_session = "ShortBreak" -> t.short_break_duration
                    [] t.current_session = "LongBreak"  -> t.long_break_duration]

\* ---------------------------------------------------------- Timer::start
start(t, clock) ==
    [t EXCEPT !.state = "Running", !.last_update_time = Some(clock)]

\* pause() without the test of the run state.
pause_always(t) ==
    [t EXCEPT !.state = "Paused", !.last_update_time = None]

\* pause() that forgets to clear the anchor.
pause_keeps_anchor(t) ==
    IF t.state = "Running" THEN [t EXCEPT !.state = "Paused"] ELSE t

\* pause() that stops the timer instead of pausing it.
pause_stops(t) ==
    IF t.state = "Running"
    THEN [t EXCEPT !.state = "Stopped", !.last_update_time = None]
    ELSE t

\* ---------------------------------------------------------- Timer::pause
pause(t) ==
    IF t.state = "Running"
    THEN [t EXCEPT !.state = "Paused", !.last_update_time = None]
    ELSE t

\* resume() without the test of the run state.
resume_unguarded(t, clock) == start(t, clock)

\* resume() that restarts the paused phase from its full duration.
resume_reloads(t, clock) ==
    IF t.state = "Paused"
    THEN start([t EXCEPT !.remaining_time =
                    CASE t.current_session = "Work"       -> t.work_duration
                      [] t.current_session = "ShortBreak" -> t.short_break_duration
                      [] t.current_session = "LongBreak"  -> t.long_break_duration],
               clock)
    ELSE t

\* --------------------------------------------------------- Timer::resume
resume(t, clock) ==
    IF t.state = "Paused" THEN start(t, clock) ELSE t

\* toggle_pause() that calls resume() for a stopped timer.
toggle_pause_stopped_resumes(t, clock) ==
    CASE t.state = "Running" -> pause(t)
      [] t.state = "Paused"  -> resume(t, clock)
      [] t.state = "Stopped" -> resume(t, clock)

\* --------------------------------------------------- Timer::toggle_pause
toggle_pause(t, clock) ==
    CASE t.state = "Running" -> pause(t)
      [] t.state = "Paused"  -> resume(t, clock)
      [] t.state = "Stopped" -> start(t, clock)

\* complete_session() that loads the work duration for the break that
\* follows a work session.
complete_session_work_budget(t) ==
    IF t.current_session = "Work"
    THEN LET t1 == [t EXCEPT !.pomodoros_completed = @ + 1] IN
         IF t1.long_break_after_pomodoros = 0
         THEN [timer |-> t1, ret |-> FALSE, panic |-> TRUE]
         ELSE IF t1.pomodoros_completed % t1.long_break_after_pomodoros = 0
         THEN [timer |-> [t1 EXCEPT !.current_session = "LongBreak",
                                    !.remaining_time = t1.work_duration,
                                    !.break_count = 0,
                                    !.state = "Stopped",
                                    !.last_update_time = None],
               ret |-> TRUE, panic |-> FALSE]
         ELSE [timer |-> [t1 EXCEPT !.current_session = "ShortBreak",
                                    !.remaining_time = t1.work_duration,
                                    !.break_count = @ + 1,
                                    !.state = "Stopped",
                                    !.last_update_time = None],
               ret |-> TRUE, panic |-> FALSE]
    ELSE [timer |-> [t EXCEPT !.current_session = "Work",
                              !.remaining_time = t.work_duration,
                              !.state = "Stopped",
                              !.last_update_time = None],
          ret |-> TRUE, panic |-> FALSE]

\* complete_session() that tests the cadence on the count before the
\* increment.
complete_session_stale_count(t) ==
    IF t.current_session = "Work"
    THEN LET t1 == [t EXCEPT !.pomodoros_completed = @ + 1] IN
         IF t1.long_break_after_pomodoros = 0
         THEN [timer |-> t1, ret |-> FALSE, panic |-> TRUE]
         ELSE IF t.pomodoros_completed % t1.long_break_after_pomodoros = 0
         THEN [timer |-> [t1 EXCEPT !.current_session = "LongBreak",
                                    !.remaining_time = t1.long_break_duration,
                                    !.break_count = 0,
                                    !.state = "Stopped",
                                    !.last_update_time = None],
               ret |-> TRUE, panic |-> FALSE]
         ELSE [timer |-> [t1 EXCEPT !.current_session = "ShortBreak",
                                    !.remaining_time = t1.short_break_duration,
                                    !.break_count = @ + 1,
                                    !.state = "Stopped",
                                    !.last_update_time = None],
               ret |-> TRUE, panic |-> FALSE]
    ELSE [timer |-> [t EXCEPT !.current_session = "Work",
                              !.remaining_time = t.work_duration,
                              !.state = "Stopped",
                              !.last_update_time = None],
          ret |-> TRUE, panic |-> FALSE]

\* complete_session() that stops the timer but leaves the anchor as the
\* caller set it.
complete_session_keeps_anchor(t) ==
    IF t.current_session = "Work"
    THEN LET t1 == [t EXCEPT !.pomodoros_completed = @ + 1] IN
         IF t1.long_break_after_pomodoros = 0
         THEN [timer |-> t1, ret |-> FALSE, panic |-> TRUE]
         ELSE IF t1.pomodoros_completed % t1.long_break_after_pomodoros = 0
         THEN [timer |-> [t1 EXCEPT !.current_session = "LongBreak",
                                    !.remaining_time = t1.long_break_duration,
                                    !.break_count = 0,
                                    !.state = "Stopped"],
               ret |-> TRUE, panic |-> FALSE]
         ELSE [timer |-> [t1 EXCEPT !.current_session = "ShortBreak",
                                    !.remaining_time = t1.short_break_duration,
                                    !.break_count = @ + 1,
                                    !.state = "Stopped"],
               ret |-> TRUE, panic |-> FALSE]
    ELSE [timer |-> [t EXCEPT !.current_session = "Work",
                              !.remaining_time = t.work_duration,
                              !.state = "Stopped"],
          ret |-> TRUE, panic |-> FALSE]

\* complete_session() that counts every completed phase, breaks included.
complete_session_counts_breaks(t) ==
    LET t1 == [t EXCEPT !.pomodoros_completed = @ + 1] IN
    IF t.current_session = "Work"
    THEN IF t1.long_break_after_pomodoros = 0
         THEN [timer |-> t1, ret |-> FALSE, panic |-> TRUE]
         ELSE IF t1.pomodoros_completed % t1.long_break_after_pomodoros = 0
         THEN [timer |-> [t1 EXCEPT !.current_session = "LongBreak",
                                    !.remaining_time = t1.long_break_duration,
                                    !.break_count = 0,
                                    !.state = "Stopped",
                                    !.last_update_time = None],
               ret |-> TRUE, panic |-> FALSE]
         ELSE [timer |-> [t1 EXCEPT !.current_session = "ShortBreak",
                                    !.remaining_time = t1.short_break_duration,
                                    !.break_count = @ + 1,
                                    !.state = "Stopped",
                                    !.last_update_time = None],
               ret |-> TRUE, panic |-> FALSE]
    ELSE [timer |-> [t1 EXCEPT !.current_session = "Work",
                               !.remaining_time = t.work_duration,
                               !.state = "Stopped",
                               !.last_update_time = None],
          ret |-> TRUE, panic |-> FALSE]

\* complete_session() that does not reset break_count when it takes the
\* long break.
complete_session_keeps_streak(t) ==
    IF t.current_session = "Work"
    THEN LET t1 == [t EXCEPT !.pomodoros_completed = @ + 1] IN
         IF t1.long_break_after_pomodoros = 0
         THEN [timer |-> t1, ret |-> FALSE, panic |-> TRUE]
         ELSE IF t1.pomodoros_completed % t1.long_break_after_pomodoros = 0
         THEN [timer |-> [t1 EXCEPT !.current_session = "LongBreak",
                                    !.remaining_time = t1.long_break_duration,
                                    !.state = "Stopped",
                                    !.last_update_time = None],
               ret |-> TRUE, panic |-> FALSE]
         ELSE [timer |-> [t1 EXCEPT !.current_session = "ShortBreak",
                                    !.remaining_time = t1.short_break_duration,
                                    !.break_count = @ + 1,
                                    !.state = "Stopped",
                                    !.last_update_time = None],
               ret |-> TRUE, panic |-> FALSE]
    ELSE [timer |-> [t EXCEPT !.current_session = "Work",
                              !.remaining_time = t.work_duration,
                              !.state = "Stopped",
                              !.last_update_time = None],
          ret |-> TRUE, panic |-> FALSE]

\* complete_session() that takes the long break once break_count has
\* reached the cadence.
complete_session_by_streak(t) ==
    IF t.current_session = "Work"
    THEN LET t1 == [t EXCEPT !.pomodoros_completed = @ + 1] IN
         IF t1.long_break_after_pomodoros = 0
         THEN [timer |-> t1, ret |-> FALSE, panic |-> TRUE]
         ELSE IF t1.break_count = t1.long_break_after_pomodoros
         THEN [timer |-> [t1 EXCEPT !.current_session = "LongBreak",
                                    !.remaining_time = t1.long_break_duration,
                                    !.break_count = 0,
                                    !.state = "Stopped",
                                    !.last_update_time = None],
               ret |-> TRUE, panic |-> FALSE]
         ELSE [timer |-> [t1 EXCEPT !.current_session = "ShortBreak",
                                    !.remaining_time = t1.short_break_duration,
                                    !.break_count = @ + 1,
                                    !.state = "Stopped",
                                    !.last_update_time = None],
               ret |-> TRUE, panic |-> FALSE]
    ELSE [timer |-> [t EXCEPT !.current_session = "Work",
                              !.remaining_time = t.work_duration,
                              !.state = "Stopped",
                              !.last_update_time = None],
          ret |-> TRUE, panic |-> FALSE]

\* complete_session() that lets the timer run on into the next phase: the
\* run state and the anchor stay as the caller left them.
complete_session_keeps_running(t) ==
    IF t.current_session = "Work"
    THEN LET t1 == [t EXCEPT !.pomodoros_completed = @ + 1] IN
         IF t1.long_break_after_pomodoros = 0
         THEN [timer |-> t1, ret |-> FALSE, panic |-> TRUE]
         ELSE IF t1.pomodoros_completed % t1.long_break_after_pomodoros = 0
         THEN [timer |-> [t1 EXCEPT !.current_session = "LongBreak",
                                    !.remaining_time = t1.long_break_duration,
                                    !.break_count = 0],
               ret |-> TRUE, panic |-> FALSE]
         ELSE [timer |-> [t1 EXCEPT !.current_session = "ShortBreak",
                                    !.remaining_time = t1.short_break_duration,
                                    !.break_count = @ + 1],
               ret |-> TRUE, panic |-> FALSE]
    ELSE [timer |-> [t EXCEPT !.current_session = "Work",
                              !.remaining_time = t.work_duration],
          ret |-> TRUE, panic |-> FALSE]

\* ----------------------------------------------- Timer::complete_session
\* Result: the timer left behind, the returned flag, and whether the call
\* panicked (remainder by zero at `% long_break_after_pomodoros`); a panic
\* unwinds before any later assignment of the method is made.
complete_session(t) ==
    IF t.current_session = "Work"
    THEN LET t1 == [t EXCEPT !.pomodoros_completed = @ + 1] IN
         IF t1.long_break_after_pomodoros = 0
         THEN [timer |-> t1, ret |-> FALSE, panic |-> TRUE]
         ELSE IF t1.pomodoros_completed % t1.long_break_after_pomodoros = 0
         THEN [timer |-> [t1 EXCEPT !.current_session = "LongBreak",
                                    !.remaining_time = t1.long_break_duration,
                                    !.break_count = 0,
                                    !.state = "Stopped",
                                    !.last_update_time = None],
               ret |-> TRUE, panic |-> FALSE]
         ELSE [timer |-> [t1 EXCEPT !.current_session = "ShortBreak",
                                    !.remaining_time = t1.short_break_duration,
                                    !.break_count = @ + 1,
                                    !.state = "Stopped",
                                    !.last_update_time = None],
               ret |-> TRUE, panic |-> FALSE]
    ELSE [timer |-> [t EXCEPT !.current_session = "Work",
                              !.remaining_time = t.work_duration,
                              !.state = "Stopped",
                              !.last_update_time = None],
          ret |-> TRUE, panic |-> FALSE]

\* skip_session() that moves to the next phase and keeps it running.
skip_session_keeps_running(t) ==
    LET r == complete_session([t EXCEPT !.remaining_time = 0]) IN
    IF t.state = "Running"
    THEN [r EXCEPT !.timer.state = "Running",
                   !.timer.last_update_time = t.last_update_time]
    ELSE r

\* skip_session() that only acts on a running timer.
skip_session_only_running(t) ==
    IF t.state # "Running"
    THEN [timer |-> t, ret |-> FALSE, panic |-> FALSE]
    ELSE complete_session([t EXCEPT !.remaining_time = 0])

\* --------------------------------------------------- Timer::skip_session
skip_session(t) ==
    complete_session([t EXCEPT !.remaining_time = 0])

\* tick() that completes only when remaining_time < elapsed.
tick_strict(t, clock) ==
    IF t.state # "Running"
    THEN [timer |-> t, ret |-> FALSE, panic |-> FALSE]
    ELSE IF t.last_update_time # None
    THEN LET elapsed == clock - Unwrap(t.last_update_time) IN
         IF t.remaining_time < elapsed
         THEN complete_session([t EXCEPT !.remaining_time = 0,
                                         !.last_update_time = Some(clock)])
         ELSE [timer |-> [t EXCEPT !.remaining_time = @ - elapsed,
                                   !.last_update_time = Some(clock)],
               ret |-> FALSE, panic |-> FALSE]
    ELSE [timer |-> t, ret |-> FALSE, panic |-> FALSE]

\* tick() that counts one second down per call, whatever the run state and
\* the clock.
tick_every_call(t, clock) ==
    IF t.remaining_time <= 1
    THEN complete_session([t EXCEPT !.remaining_time = 0])
    ELSE [timer |-> [t EXCEPT !.remaining_time = @ - 1],
          ret |-> FALSE, panic |-> FALSE]

\* tick() that does not move the anchor when it subtracts, so that the same
\* time is subtracted again by the next tick.
tick_stale_anchor(t, clock) ==
    IF t.state # "Running"
    THEN [timer |-> t, ret |-> FALSE, panic |-> FALSE]
    ELSE IF t.last_update_time # None
    THEN LET elapsed == clock - Unwrap(t.last_update_time) IN
         IF t.remaining_time <= elapsed
         THEN complete_session([t EXCEPT !.remaining_time = 0,
                                         !.last_update_time = Some(clock)])
         ELSE [timer |-> [t EXCEPT !.remaining_time = @ - elapsed],
               ret |-> FALSE, panic |-> FALSE]
    ELSE [timer |-> t, ret |-> FALSE, panic |-> FALSE]

\* tick() that leaves remaining_time at zero when the phase expires: the
\* next phase is selected but its duration is not loaded.
tick_leaves_zero(t, clock) ==
    IF t.state # "Running"
    THEN [timer |-> t, ret |-> FALSE, panic |-> FALSE]
    ELSE IF t.last_update_time # None
    THEN LET elapsed == clock - Unwrap(t.last_update_time) IN
         IF t.remaining_time <= elapsed
         THEN LET r == complete_session([t EXCEPT !.remaining_time = 0,
                                                  !.last_update_time = Some(clock)])
              IN [r EXCEPT !.timer.remaining_time = 0]
         ELSE [timer |-> [t EXCEPT !.remaining_time = @ - elapsed,
                                   !.last_update_time = Some(clock)],
               ret |-> FALSE, panic |-> FALSE]
    ELSE [timer |-> t, ret |-> FALSE, panic |-> FALSE]

\* tick() that takes the elapsed time as the signed difference of the two
\* clock readings.
tick_signed_elapsed(t, clock) ==
    IF t.state # "Running"
    THEN [timer |-> t, ret |-> FALSE, panic |-> FALSE]
    ELSE IF t.last_update_time # None
    THEN LET elapsed == clock - Unwrap(t.last_update_time) IN
         IF t.remaining_time <= elapsed
         THEN complete_session([t EXCEPT !.remaining_time = 0,
                                         !.last_update_time = Some(clock)])
         ELSE [timer |-> [t EXCEPT !.remaining_time = @ - elapsed,
                                   !.last_update_time = Some(clock)],
               ret |-> FALSE, panic |-> FALSE]
    ELSE [timer |-> t, ret |-> FALSE, panic |-> FALSE]

\* tick() that completes the phase only when the elapsed time is exactly the
\* time that remains.
tick_exact_hit(t, clock) ==
    IF t.state # "Running"
    THEN [timer |-> t, ret |-> FALSE, panic |-> FALSE]
    ELSE IF t.last_update_time # None
    THEN LET elapsed == duration_since(clock, Unwrap(t.last_update_time)) IN
         IF t.remaining_time = elapsed
         THEN complete_session([t EXCEPT !.remaining_time = 0,
                                         !.last_update_time = Some(clock)])
         ELSE LET left == checked_sub(t.remaining_time, elapsed) IN
              IF left = None
              THEN [timer |-> t, ret |-> FALSE, panic |-> TRUE]
              ELSE [timer |-> [t EXCEPT !.remaining_time = Unwrap(left),
                                        !.last_update_time = Some(clock)],
                    ret |-> FALSE, panic |-> FALSE]
    ELSE [timer |-> t, ret |-> FALSE, panic |-> FALSE]

\* tick() that charges the time elapsed beyond the end of the phase to the
\* phase that follows.
tick_carries_excess(t, clock) ==
    IF t.state # "Running"
    THEN [timer |-> t, ret |-> FALSE, panic |-> FALSE]
    ELSE IF t.last_update_time # None
    THEN LET elapsed == duration_since(clock, Unwrap(t.last_update_time)) IN
         IF t.remaining_time <= elapsed
         THEN LET r == complete_session([t EXCEPT !.remaining_time = 0,
                                                  !.last_update_time = Some(clock)])
                  excess == elapsed - t.remaining_time
              IN  [r EXCEPT !.timer.remaining_time =
                                IF excess < @ THEN @ - excess ELSE 0]
         ELSE [timer |-> [t EXCEPT !.remaining_time = @ - elapsed,
                                   !.last_update_time = Some(clock)],
               ret |-> FALSE, panic |-> FALSE]
    ELSE [timer |-> t, ret |-> FALSE, panic |-> FALSE]

\* tick() that moves the anchor without charging the elapsed time to a phase
\* that has not expired.
tick_drops_elapsed(t, clock) ==
    IF t.state # "Running"
    THEN [timer |-> t, ret |-> FALSE, panic |-> FALSE]
    ELSE IF t.last_update_time # None
    THEN LET elapsed == duration_since(clock, Unwrap(t.last_update_time)) IN
         IF t.remaining_time <= elapsed
         THEN complete_session([t EXCEPT !.remaining_time = 0,
                                         !.last_update_time = Some(clock)])
         ELSE [timer |-> [t EXCEPT !.last_update_time = Some(clock)],
               ret |-> FALSE, panic |-> FALSE]
    ELSE [timer |-> t, ret |-> FALSE, panic |-> FALSE]

\* ----------------------------------------------------------- Timer::tick
\* `clock` is the value Instant::now() returns inside the call. The
\* subtraction of two Durations panics when the result would be negative.
tick(t, clock) ==
    IF t.state # "Running"
    THEN [timer |-> t, ret |-> FALSE, panic |-> FALSE]
    ELSE IF t.last_update_time # None
    THEN LET elapsed == duration_since(clock, Unwrap(t.last_update_time)) IN
         IF t.remaining_time <= elapsed
         THEN complete_session([t EXCEPT !.remaining_time = 0,
                                         !.last_update_time = Some(clock)])
         ELSE LET left == checked_sub(t.remaining_time, elapsed) IN
              IF left = None
              THEN [timer |-> t, ret |-> FALSE, panic |-> TRUE]
              ELSE [timer |-> [t EXCEPT !.remaining_time = Unwrap(left),
                                        !.last_update_time = Some(clock)],
                    ret |-> FALSE, panic |-> FALSE]
    ELSE [timer |-> t, ret |-> FALSE, panic |-> FALSE]

\* reset() that forgets break_count.
reset_keeps_break_count(t) ==
    [t EXCEPT !.current_session = "Work",
              !.remaining_time = t.work_duration,
              !.state = "Stopped",
              !.pomodoros_completed = 0,
              !.last_update_time = None]

\* reset() that keeps the count of completed work sessions.
reset_keeps_pomodoros(t) ==
    [t EXCEPT !.current_session = "Work",
              !.remaining_time = t.work_duration,
              !.state = "Stopped",
              !.last_update_time = None,
              !.break_count = 0]

\* reset() that stays in the phase it was called in.
reset_keeps_phase(t) ==
    [t EXCEPT !.remaining_time = t.work_duration,
              !.state = "Stopped",
              !.pomodoros_completed = 0,
              !.last_update_time = None,
              !.break_count = 0]

\* ---------------------------------------------------------- Timer::reset
reset(t) ==
    [t EXCEPT !.current_session = "Work",
              !.remaining_time = t.work_duration,
              !.state = "Stopped",
              !.pomodoros_completed = 0,
              !.last_update_time = None,
              !.break_count = 0]

\* ------------------------------------------------- Timer::get_total_duration
get_total_duration(t) ==
    CASE t.current_session = "Work"       -> t.work_duration
      [] t.current_session = "ShortBreak" -> t.short_break_duration
      [] t.current_session = "LongBreak"  -> t.long_break_duration

\* The characters of the decimal digits, the digit d at position d + 1.
DigitChars == <<"0", "1", "2", "3", "4", "5", "6", "7", "8", "9">>

RECURSIVE Decimal(_)
\* The decimal numeral of the natural number n, as `{}` formats it: a
\* sequence of digit characters with no leading zero.
Decimal(n) ==
    IF n < Len(DigitChars)
    THEN <<DigitChars[n + 1]>>
    ELSE Decimal(n \div Len(DigitChars)) \o <<DigitChars[(n % Len(DigitChars)) + 1]>>

\* The format `{:02}`: the decimal numeral, with a zero put in front of a
\* single digit; a longer numeral is left as it is.
Format02(n) ==
    IF Len(Decimal(n)) < 2 THEN <<"0">> \o Decimal(n) ELSE Decimal(n)

\* get_display_time() that keeps the minutes within two digits.
get_display_time_wraps(t) ==
    LET total_seconds == t.remaining_time
        minutes == (total_seconds \div SecsPerMinute) % 100
        seconds == total_seconds % SecsPerMinute
    IN  Format02(minutes) \o <<":">> \o Format02(seconds)

\* ------------------------------------------------- Timer::get_display_time
\* The String returned, as the sequence of its characters. remaining_time is
\* in whole seconds, as as_secs() reads it.
get_display_time(t) ==
    LET total_seconds == t.remaining_time
        minutes == total_seconds \div SecsPerMinute
        seconds == total_seconds % SecsPerMinute
    IN  Format02(minutes) \o <<":">> \o Format02(seconds)

\* get_progress() that always measures against the work duration.
get_progress_of_work(t) ==
    LET total_duration == t.work_duration
        elapsed == checked_sub(total_duration, t.remaining_time)
    IN  IF elapsed = None
        THEN [panic |-> TRUE, num |-> 0, den |-> total_duration]
        ELSE [panic |-> FALSE, num |-> Unwrap(elapsed), den |-> total_duration]

\* ----------------------------------------------------- Timer::get_progress
\* The f64 quotient is kept as its numerator and denominator, both in
\* seconds; the call panics when the subtraction has no result.
get_progress(t) ==
    LET total_duration ==
            CASE t.current_session = "Work"       -> t.work_duration
              [] t.current_session = "ShortBreak" -> t.short_break_duration
              [] t.current_session = "LongBreak"  -> t.long_break_duration
        elapsed == checked_sub(total_duration, t.remaining_time)
    IN  IF elapsed = None
        THEN [panic |-> TRUE, num |-> 0, den |-> total_duration]
        ELSE [panic |-> FALSE, num |-> Unwrap(elapsed), den |-> total_duration]

\* ------------------------------------------------------------- the AppUI
\* MenuItem::all(): the menu items in order.
MenuItem == <<"Start", "Pause", "Skip", "Reset", "Help", "Exit">>

\* The position of a menu item in MenuItem::all().
Position(item) == CHOOSE i \in 1..Len(MenuItem) : MenuItem[i] = item

\* The keys told apart by process_key_event: Enter stands for Space too, q
\* for Esc, h for ?, and x for every key that has no binding.
KeyCode == {"Tab", "Left", "Right", "Enter", "q", "p", "s", "r", "h", "x"}

\* AppUI::new: the fields of the AppUI that key events read and write.
AppUI_new ==
    [ should_quit       |-> FALSE,
      show_help         |-> FALSE,
      focused_menu_item |-> "Start" ]

\* -------------------------------- AppUI::update_focus_based_on_timer_state
update_focus_based_on_timer_state(u, t) ==
    IF u.focused_menu_item = "Start" /\ t.state = "Running"
    THEN [u EXCEPT !.focused_menu_item = "Pause"]
    ELSE IF u.focused_menu_item = "Pause" /\ t.state # "Running"
    THEN [u EXCEPT !.focused_menu_item = "Start"]
    ELSE u

\* ------------------------------------------------- AppUI::next_menu_item
next_menu_item(u) ==
    [u EXCEPT !.focused_menu_item =
                  MenuItem[(Position(u.focused_menu_item) % Len(MenuItem)) + 1]]

\* ------------------------------------------------- AppUI::prev_menu_item
prev_menu_item(u) ==
    [u EXCEPT !.focused_menu_item =
                  IF Position(u.focused_menu_item) = 1
                  THEN MenuItem[Len(MenuItem)]
                  ELSE MenuItem[Position(u.focused_menu_item) - 1]]

\* The result of a key handler that calls no method of the timer.
Handled(u, t, handled) ==
    [ ui |-> u, timer |-> t, call |-> "none", ret |-> FALSE, panic |-> FALSE,
      handled |-> handled ]

\* The result of a key handler that has called timer.toggle_pause().
Toggled(u, t, clock) ==
    [ ui |-> u, timer |-> toggle_pause(t, clock), call |-> "toggle_pause",
      ret |-> FALSE, panic |-> FALSE, handled |-> FALSE ]

\* The result of a key handler that has called timer.skip_session(), whose
\* returned flag it drops.
Skipped(u, t) ==
    [ ui |-> [u EXCEPT !.focused_menu_item = "Start"],
      timer |-> skip_session(t).timer, call |-> "skip_session",
      ret |-> skip_session(t).ret, panic |-> skip_session(t).panic,
      handled |-> FALSE ]

\* The result of a key handler that has called timer.reset().
Resetted(u, t) ==
    [ ui |-> [u EXCEPT !.focused_menu_item = "Start"],
      timer |-> reset(t), call |-> "reset",
      ret |-> FALSE, panic |-> FALSE, handled |-> FALSE ]

\* --------------------------------------------- AppUI::execute_focused_item
execute_focused_item(u, t, clock) ==
    CASE u.focused_menu_item = "Start" ->
            IF t.state = "Stopped" \/ t.state = "Paused"
            THEN Toggled(IF toggle_pause(t, clock).state = "Running"
                         THEN [u EXCEPT !.focused_menu_item = "Pause"] ELSE u,
                         t, clock)
            ELSE Handled(u, t, FALSE)
      [] u.focused_menu_item = "Pause" ->
            IF t.state = "Running"
            THEN Toggled(IF toggle_pause(t, clock).state = "Paused"
                         THEN [u EXCEPT !.focused_menu_item = "Start"] ELSE u,
                         t, clock)
            ELSE Handled(u, t, FALSE)
      [] u.focused_menu_item = "Skip"  -> Skipped(u, t)
      [] u.focused_menu_item = "Reset" -> Resetted(u, t)
      [] u.focused_menu_item = "Help"  ->
            Handled([u EXCEPT !.show_help = ~u.show_help], t, FALSE)
      [] u.focused_menu_item = "Exit"  ->
            Handled([u EXCEPT !.should_quit = TRUE], t, TRUE)

\* process_key_event() that lets the key through to its binding after it
\* has closed the help.
process_key_event_passes_key(u, t, key, clock) ==
    LET v == [u EXCEPT !.show_help = FALSE] IN
    CASE key \in {"Tab", "Right"} -> Handled(next_menu_item(v), t, FALSE)
      [] key = "Left"  -> Handled(prev_menu_item(v), t, FALSE)
      [] key = "Enter" -> execute_focused_item(v, t, clock)
      [] key = "q"     -> Handled([v EXCEPT !.should_quit = TRUE], t, TRUE)
      [] key = "p"     ->
            Toggled([v EXCEPT !.focused_menu_item =
                                  IF toggle_pause(t, clock).state = "Running"
                                  THEN "Pause" ELSE "Start"],
                    t, clock)
      [] key = "s"     -> Skipped(v, t)
      [] key = "r"     -> Resetted(v, t)
      [] key = "h"     -> Handled([v EXCEPT !.show_help = TRUE], t, FALSE)
      [] OTHER         -> Handled(v, t, FALSE)

\* ------------------------------------------------ AppUI::process_key_event
\* Result: the AppUI and the timer the call leaves, the method of the timer
\* it has called (if any) with what that method returned, and the flag the
\* call returns.
process_key_event(u, t, key, clock) ==
    IF u.show_help
    THEN Handled([u EXCEPT !.show_help = FALSE], t, FALSE)
    ELSE
    CASE key \in {"Tab", "Right"} -> Handled(next_menu_item(u), t, FALSE)
      [] key = "Left"  -> Handled(prev_menu_item(u), t, FALSE)
      [] key = "Enter" -> execute_focused_item(u, t, clock)
      [] key = "q"     -> Handled([u EXCEPT !.should_quit = TRUE], t, TRUE)
      [] key = "p"     ->
            Toggled([u EXCEPT !.focused_menu_item =
                                  IF toggle_pause(t, clock).state = "Running"
                                  THEN "Pause" ELSE "Start"],
                    t, clock)
      [] key = "s"     -> Skipped(u, t)
      [] key = "r"     -> Resetted(u, t)
      [] key = "h"     -> Handled([u EXCEPT !.show_help = TRUE], t, FALSE)
      [] OTHER         -> Handled(u, t, FALSE)

\* ------------------------------------------------------------------ state
VARIABLES
    timer,      \* the Timer struct
    now,        \* the reading of the monotonic clock (Instant::now())
    panicked,   \* the process has panicked and runs no further call
    lastOp,     \* the method called last
    lastRet,    \* what it returned (tick and skip_session; FALSE otherwise)
    lastFrom,   \* the run state it was called in
    lastPhase,  \* the phase it was called in
    phaseRun,   \* history of the running phase: the phase, the clock reading
                \* and the remaining_time at the last start() that no command
                \* has followed, and the clock readings of the ticks since
    config,     \* the configuration the timer was constructed from
    trail,      \* history: the phases the timer has been in since it was
                \* constructed or last reset, the current one last
    signals,    \* history: the number of calls that returned true since the
                \* timer was constructed or last reset
    launch,     \* the command line and the configuration file the program
                \* was launched with and the Config loaded from them; None
                \* for a timer that is given its durations directly
    shown,      \* the text get_display_time() returned last, None before
                \* the first call
    ui,         \* the AppUI: should_quit, show_help and focused_menu_item
    lastKey     \* history: the key that was processed last if the help was
                \* shown then, with the timer and the AppUI it found; None
                \* otherwise

\* The variables of the user interface.
uiVars == <<ui, lastKey>>

vars == <<timer, now, panicked, lastOp, lastRet, lastFrom, lastPhase, phaseRun,
          config, trail, signals, launch, shown, ui, lastKey>>

\* Configurations that satisfy the documented construction precondition:
\* positive durations and a cadence of at least 1.
ValidConfigs ==
    [ work_duration              : 1..MaxWork,
      short_break_duration       : 1..MaxBreak,
      long_break_duration        : 1..MaxBreak,
      long_break_after_pomodoros : 1..MaxCadence ]

\* The state right after Timer::new(c).
Constructed(c) ==
    /\ config = c
    /\ timer = new(c)
    /\ now = 0
    /\ panicked = FALSE
    /\ lastOp = "new"
    /\ lastRet = FALSE
    /\ lastFrom = "Stopped"
    /\ lastPhase = "Work"
    /\ phaseRun = None
    /\ trail = <<"Work">>
    /\ signals = 0
    /\ launch = None
    /\ shown = None
    /\ ui = AppUI_new
    /\ lastKey = None

Init == \E c \in ValidConfigs : Constructed(c)

\* The phases visited, after a call that left the timer `t`: reset() starts
\* the history over, and a call that changed the phase appends the new one.
Trailed(op, t) ==
    IF op = "reset" THEN <<t.current_session>>
    ELSE IF t.current_session # timer.current_session
    THEN Append(trail, t.current_session)
    ELSE trail

\* The history opened by a call that ran start() and left the timer `t`.
Armed(t) ==
    Some([ session   |-> t.current_session,
           since     |-> Unwrap(t.last_update_time),
           remaining |-> t.remaining_time,
           ticks     |-> << >> ])

\* The history after a tick that left the timer `t`: the clock reading of a
\* tick that changed the timer is appended (the tick that completes the
\* phase is the last one); a tick of a timer that is not running has no
\* history.
Ticked(t) ==
    IF timer.state # "Running" THEN None
    ELSE IF t = timer THEN phaseRun
    ELSE Some([Unwrap(phaseRun) EXCEPT !.ticks = Append(@, now)])

\* A call that returns nothing: start(), when the call runs it, opens a new
\* history; a call that leaves the timer running without start() (resume()
\* of a running timer, which does nothing) keeps the history; any other
\* command closes it.
Command(op, t, armed) ==
    /\ ~panicked
    /\ timer' = t
    /\ lastOp' = op
    /\ lastRet' = FALSE
    /\ lastFrom' = timer.state
    /\ lastPhase' = timer.current_session
    /\ phaseRun' = IF armed /\ t.last_update_time # None THEN Armed(t)
                   ELSE IF t.state = "Running" THEN phaseRun
                   ELSE None
    /\ trail' = Trailed(op, t)
    /\ signals' = IF op = "reset" THEN 0 ELSE signals
    /\ UNCHANGED <<now, panicked, config, launch, shown>>

\* A call that returns the completion flag, with result `r`.
Returned(op, r, history) ==
    /\ ~panicked
    /\ timer' = r.timer
    /\ lastOp' = op
    /\ lastRet' = r.ret
    /\ lastFrom' = timer.state
    /\ lastPhase' = timer.current_session
    /\ panicked' = r.panic
    /\ phaseRun' = history
    /\ trail' = Trailed(op, r.timer)
    /\ signals' = IF r.ret THEN signals + 1 ELSE signals
    /\ UNCHANGED <<now, config, launch, shown>>

\* Such a call, taken while the count of work sessions stays within the
\* bound of the model.
Signalling(op, r, history) ==
    /\ r.timer.pomodoros_completed <= MaxPomodoros
    /\ Returned(op, r, history)

Start ==
    /\ Command("start", start(timer, now), TRUE)
    /\ UNCHANGED uiVars

Pause ==
    /\ Command("pause", pause(timer), FALSE)
    /\ UNCHANGED uiVars

Resume ==
    /\ Command("resume", resume(timer, now), timer.state = "Paused")
    /\ UNCHANGED uiVars

TogglePause ==
    /\ Command("toggle_pause", toggle_pause(timer, now), timer.state # "Running")
    /\ UNCHANGED uiVars

Reset ==
    /\ Command("reset", reset(timer), FALSE)
    /\ UNCHANGED uiVars

SkipSession ==
    /\ Signalling("skip_session", skip_session(timer), None)
    /\ UNCHANGED uiVars

Tick ==
    /\ Signalling("tick", tick(timer, now), Ticked(tick(timer, now).timer))
    /\ UNCHANGED uiVars

\* Wall-clock time passes between two calls.
Advance ==
    /\ ~panicked
    /\ \E d \in 1..MaxStep : now + d <= MaxNow /\ now' = now + d
    /\ UNCHANGED <<timer, panicked, lastOp, lastRet, lastFrom, lastPhase, phaseRun,
                   config, trail, signals, launch, shown, ui, lastKey>>

Next ==
    \/ Start
    \/ Pause
    \/ Resume
    \/ TogglePause
    \/ Reset
    \/ SkipSession
    \/ Tick
    \/ Advance

Spec == Init /\ [][Next]_vars

TypeOK ==
    /\ timer.current_session \in SessionType
    /\ timer.state \in TimerState
    /\ timer.remaining_time \in Nat
    /\ timer.pomodoros_completed \in 0..MaxPomodoros
    /\ timer.break_count \in Nat
    /\ now \in 0..MaxNow
    /\ panicked \in BOOLEAN
    /\ lastRet \in BOOLEAN
    /\ lastFrom \in TimerState
    /\ lastPhase \in SessionType

\* Number of values of the u8 type of break_count and of the cadence.
U8Values == 256

\* ------------------------------------------- phases completed by skipping
\* Largest long-break cadence drawn for a timer whose phases are skipped.
MaxLawCadence == 4

LawConfigs ==
    [ work_duration              : 1..MaxBreak,
      short_break_duration       : 1..MaxBreak,
      long_break_duration        : 1..MaxBreak,
      long_break_after_pomodoros : 1..MaxLawCadence ]

InitCadence == \E c \in LawConfigs : Constructed(c)

\* skip_session() called again and again on a fresh timer, for two rounds of
\* the cadence.
SkipRepeated ==
    /\ skip_session(timer).timer.pomodoros_completed
          <= 2 * config.long_break_after_pomodoros
    /\ Returned("skip_session", skip_session(timer), None)
    /\ UNCHANGED uiVars

SpecCadence == InitCadence /\ [][SkipRepeated]_vars

\* ------------------------------------------------- configuration loading
\* Config::default(), with the fields the timer and the display read.
Config_default ==
    [ no_clock            |-> FALSE,
      no_sound            |-> FALSE,
      tomatoes_per_set    |-> 4,
      work_minutes        |-> 25,
      small_break_minutes |-> 5,
      long_break_minutes  |-> 10 ]

\* CliArgs::parse(): an option that is not on the command line `cmd` (None)
\* takes its default_value, a flag that is not there is false.
CliArgs_parse(cmd) ==
    [ work_duration    |-> IF cmd.work_duration = None THEN 25
                           ELSE Unwrap(cmd.work_duration),
      short_break      |-> IF cmd.short_break = None THEN 5
                           ELSE Unwrap(cmd.short_break),
      long_break       |-> IF cmd.long_break = None THEN 10
                           ELSE Unwrap(cmd.long_break),
      long_break_after |-> IF cmd.long_break_after = None THEN 4
                           ELSE Unwrap(cmd.long_break_after),
      no_sound         |-> cmd.no_sound,
      no_clock         |-> cmd.no_clock,
      focus            |-> cmd.focus ]

\* Config::load_from_cli_args_with_config: `file` is the Config read from the
\* configuration file, None when there is no file or it cannot be read.
load_from_cli_args_with_config(args, file) ==
    LET c0 == IF file = None THEN Config_default ELSE Unwrap(file)
        c1 == IF args.work_duration # 25
              THEN [c0 EXCEPT !.work_minutes = args.work_duration] ELSE c0
        c2 == IF args.short_break # 5
              THEN [c1 EXCEPT !.small_break_minutes = args.short_break] ELSE c1
        c3 == IF args.long_break # 10
              THEN [c2 EXCEPT !.long_break_minutes = args.long_break] ELSE c2
        c4 == IF args.long_break_after # 4
              THEN [c3 EXCEPT !.tomatoes_per_set = args.long_break_after] ELSE c3
        c5 == IF args.no_sound THEN [c4 EXCEPT !.no_sound = TRUE] ELSE c4
        c6 == IF args.no_clock THEN [c5 EXCEPT !.no_clock = TRUE] ELSE c5
    IN  IF args.focus
        THEN [c6 EXCEPT !.no_sound = TRUE, !.no_clock = TRUE]
        ELSE c6

\* The durations, in seconds, and the cadence that Timer::new takes from the
\* Config.
Durations(cfg) ==
    [ work_duration              |-> cfg.work_minutes * SecsPerMinute,
      short_break_duration       |-> cfg.small_break_minutes * SecsPerMinute,
      long_break_duration        |-> cfg.long_break_minutes * SecsPerMinute,
      long_break_after_pomodoros |-> cfg.tomatoes_per_set ]

\* Largest number of minutes, and largest cadence, given on a command line.
MaxArg == 1

\* The command lines drawn: each duration and the cadence are left out or
\* given as a number from 0, with no flag; the work duration is also given
\* as the number that is its default.
CommandLines ==
    [ work_duration    : {None} \cup {Some(m) : m \in 0..MaxArg}
                                \cup {Some(Config_default.work_minutes)},
      short_break      : {None} \cup {Some(m) : m \in 1..MaxArg},
      long_break       : {None} \cup {Some(m) : m \in 1..MaxArg},
      long_break_after : {None} \cup {Some(n) : n \in 0..(MaxArg + 1)},
      no_sound         : {FALSE},
      no_clock         : {FALSE},
      focus            : {FALSE} ]

\* The configuration files drawn: none, or one that sets one-minute phases
\* and a long break after every work session.
ConfigFiles ==
    { None,
      Some([Config_default EXCEPT !.work_minutes = 1,
                                  !.small_break_minutes = 1,
                                  !.long_break_minutes = 1,
                                  !.tomatoes_per_set = 1]) }

\* The state after main() has loaded the Config for the command line `cmd`
\* and the configuration file `file` and App::new has built the timer.
Launched(cmd, file) ==
    LET cfg == load_from_cli_args_with_config(CliArgs_parse(cmd), file) IN
    /\ launch = Some([cmd |-> cmd, file |-> file, config |-> cfg])
    /\ config = Durations(cfg)
    /\ timer = new(Durations(cfg))
    /\ now = 0
    /\ panicked = FALSE
    /\ lastOp = "new"
    /\ lastRet = FALSE
    /\ lastFrom = "Stopped"
    /\ lastPhase = "Work"
    /\ phaseRun = None
    /\ trail = <<"Work">>
    /\ signals = 0
    /\ shown = None
    /\ ui = AppUI_new
    /\ lastKey = None

InitLoader == \E cmd \in CommandLines, file \in ConfigFiles : Launched(cmd, file)

\* Wall-clock time passes between two calls, in whole minutes.
AdvanceMinutes ==
    /\ ~panicked
    /\ \E d \in 1..MaxStep :
          /\ now + d * SecsPerMinute <= MaxNow * SecsPerMinute
          /\ now' = now + d * SecsPerMinute
    /\ UNCHANGED <<timer, panicked, lastOp, lastRet, lastFrom, lastPhase, phaseRun,
                   config, trail, signals, launch, shown, ui, lastKey>>

NextLoader ==
    \/ Start
    \/ Pause
    \/ Resume
    \/ TogglePause
    \/ Reset
    \/ SkipSession
    \/ Tick
    \/ AdvanceMinutes

SpecLoader == InitLoader /\ [][NextLoader]_vars

\* ------------------------------------------------------ the time display
\* Largest work duration drawn for a timer whose time is displayed, in
\* minutes.
MaxDisplayMinutes == 101

\* A timer of MaxDisplayMinutes of work, caught by the display at any whole
\* second of its first work session.
InitDisplay ==
    \E secs \in 0..(MaxDisplayMinutes * SecsPerMinute) :
        LET c == Durations([Config_default EXCEPT !.work_minutes = MaxDisplayMinutes]) IN
        /\ config = c
        /\ timer = [new(c) EXCEPT !.remaining_time = secs]
        /\ now = 0
        /\ panicked = FALSE
        /\ lastOp = "new"
        /\ lastRet = FALSE
        /\ lastFrom = "Stopped"
        /\ lastPhase = "Work"
        /\ phaseRun = None
        /\ trail = <<"Work">>
        /\ signals = 0
        /\ launch = None
        /\ shown = None
        /\ ui = AppUI_new
        /\ lastKey = None

\* The UI reads the time to draw.
Display ==
    /\ ~panicked
    /\ shown' = Some(get_display_time(timer))
    /\ UNCHANGED <<timer, now, panicked, lastOp, lastRet, lastFrom, lastPhase,
                   phaseRun, config, trail, signals, launch, ui, lastKey>>

SpecDisplay == InitDisplay /\ [][Display]_vars

\* --------------------------------------------------- the run loop, unattended
\* The key that starts a stopped phase (toggle_pause() of a timer that is not
\* running), pressed while the clock and the count of work sessions of the
\* model leave room for the phase to run out.
StartKey ==
    /\ timer.state # "Running"
    /\ now + timer.remaining_time <= MaxNow
    /\ timer.current_session = "Work" => timer.pomodoros_completed < MaxPomodoros
    /\ TogglePause

\* The loop of App::run with a user who starts phases and issues no pause,
\* reset or skip.
NextLive ==
    \/ StartKey
    \/ Tick
    \/ Advance

\* The interval of App::run fires again and again: the clock keeps advancing
\* and tick() keeps being called.
SpecLive ==
    /\ Init
    /\ [][NextLive]_vars
    /\ WF_vars(Tick)
    /\ WF_vars(Advance)

\* ------------------------------------------------ the run loop with its keys
\* The configurations drawn for a timer driven from the keyboard.
UIConfigs ==
    [ work_duration              : 1..MaxBreak,
      short_break_duration       : {1},
      long_break_duration        : {1},
      long_break_after_pomodoros : {2} ]

InitUI == \E c \in UIConfigs : Constructed(c)

\* An iteration of the loop of App::run that reads a key: process_key_event
\* handles it, and update_focus_based_on_timer_state follows.
KeyPress ==
    /\ ~ui.should_quit
    /\ \E key \in KeyCode :
          LET r == process_key_event(ui, timer, key, now) IN
          /\ ui' = update_focus_based_on_timer_state(r.ui, r.timer)
          /\ lastKey' = IF ui.show_help
                        THEN Some([key |-> key, timer |-> timer, ui |-> ui])
                        ELSE None
          /\ CASE r.call = "toggle_pause" ->
                     Command("toggle_pause", r.timer, timer.state # "Running")
               [] r.call = "reset" ->
                     Command("reset", r.timer, FALSE)
               [] r.call = "skip_session" ->
                     Signalling("skip_session",
                                [timer |-> r.timer, ret |-> r.ret, panic |-> r.panic],
                                None)
               [] OTHER ->
                     /\ ~panicked
                     /\ UNCHANGED <<timer, now, panicked, lastOp, lastRet, lastFrom,
                                    lastPhase, phaseRun, config, trail, signals,
                                    launch, shown>>

\* An iteration of the loop of App::run in which the interval has fired:
\* tick() is called, and update_focus_based_on_timer_state follows.
LoopTick ==
    /\ ~ui.should_quit
    /\ Signalling("tick", tick(timer, now), Ticked(tick(timer, now).timer))
    /\ ui' = update_focus_based_on_timer_state(ui, tick(timer, now).timer)
    /\ lastKey' = None

NextUI ==
    \/ KeyPress
    \/ LoopTick
    \/ Advance

SpecUI == InitUI /\ [][NextUI]_vars
\* ================================================================ claims

\* The completion transition as the design describes it, relating the timer
\* `t` it is applied to and the timer `u` it leaves: the next phase and the
\* counters after a Work phase and after a break, with the full duration of
\* the next phase loaded.
NextPhase(t, u) ==
    /\ IF t.current_session = "Work"
       THEN /\ u.pomodoros_completed = t.pomodoros_completed + 1
            /\ IF u.pomodoros_completed % t.long_break_after_pomodoros = 0
               THEN u.current_session = "LongBreak" /\ u.break_count = 0
               ELSE /\ u.current_session = "ShortBreak"
                    /\ u.break_count = t.break_count + 1
       ELSE /\ u.current_session = "Work"
            /\ u.pomodoros_completed = t.pomodoros_completed
            /\ u.break_count = t.break_count
    /\ u.remaining_time = get_total_duration(u)
    /\ u.work_duration = t.work_duration
    /\ u.short_break_duration = t.short_break_duration
    /\ u.long_break_duration = t.long_break_duration
    /\ u.long_break_after_pomodoros = t.long_break_after_pomodoros

\* A step that performs the completion transition: a skip, or a tick that
\* reports completion.
Completes == SkipSession \/ (Tick /\ lastRet')

\* C1: in every reachable state 0 <= remaining_time <= the configured
\* duration of the current session type.
C1_RemainingWithinBudget ==
    /\ 0 <= timer.remaining_time
    /\ timer.remaining_time <= get_total_duration(timer)

\* C1 witness: a tick has consumed part of a break that followed a work
\* session, so the bound in force is the break's, not the work session's.
C1_Witness ==
    /\ lastOp = "tick"
    /\ timer.state = "Running"
    /\ timer.current_session = "ShortBreak"
    /\ 0 < timer.remaining_time
    /\ timer.remaining_time < timer.short_break_duration
    /\ timer.short_break_duration < timer.work_duration

\* C2: every completion transition (by skip or by tick expiry) selects the
\* next phase and updates the counters as NextPhase states, and loads the
\* full duration of the selected phase.
C2_CompletionSelectsNextPhase ==
    [][Completes => NextPhase(timer, timer')]_vars

\* C2 witness: a tick expiry completed a second work session and selected
\* the long break of a cadence of two.
C2_Witness ==
    /\ lastOp = "tick"
    /\ lastRet
    /\ timer.current_session = "LongBreak"
    /\ timer.long_break_after_pomodoros = 2
    /\ timer.pomodoros_completed = 2
    /\ timer.break_count = 0

\* C3: immediately after any completion transition the state is Stopped and
\* last_update_time is None, from whichever run state it was invoked.
C3_CompletionStops ==
    [][Completes => timer'.state = "Stopped" /\ timer'.last_update_time = None]_vars

\* C3 witness: a tick expiry, which is invoked while Running with the anchor
\* just set, has left the timer Stopped.
C3_Witness ==
    /\ lastOp = "tick"
    /\ lastRet
    /\ lastFrom = "Running"
    /\ timer.state = "Stopped"

\* C4: in every reachable state last_update_time is Some iff state = Running.
C4_AnchorIffRunning ==
    (timer.last_update_time # None) <=> (timer.state = "Running")

\* C4 witness: a running timer has been paused.
C4_Witness ==
    /\ lastOp = "pause"
    /\ lastFrom = "Running"
    /\ timer.state = "Paused"
\* A tick taken while Running leaves `u` and returns `ret` as the design
\* states: completion when the time elapsed since the anchor reaches
\* remaining_time, plain subtraction with the anchor moved to the clock
\* reading otherwise.
TickWhileRunning(t, clock, u, ret) ==
    LET elapsed == clock - Unwrap(t.last_update_time) IN
    IF elapsed >= t.remaining_time
    THEN /\ ret
         /\ NextPhase(t, u)
         /\ u.state = "Stopped"
         /\ u.last_update_time = None
    ELSE /\ ~ret
         /\ u = [t EXCEPT !.remaining_time = t.remaining_time - elapsed,
                          !.last_update_time = Some(clock)]

\* C5: a tick while Running completes and returns true when elapsed >=
\* remaining_time (the boundary elapsed = remaining_time included), and
\* otherwise subtracts exactly elapsed, sets the anchor to now, changes
\* nothing else and returns false.
C5_TickWhileRunning ==
    [][Tick /\ timer.state = "Running"
         => TickWhileRunning(timer, now, timer', lastRet')]_vars

\* C5 witness: a tick has subtracted part of the remaining time of a work
\* session and left it running with the anchor at the clock reading.
C5_Witness ==
    /\ lastOp = "tick"
    /\ ~lastRet
    /\ timer.state = "Running"
    /\ timer.current_session = "Work"
    /\ 0 < timer.remaining_time
    /\ timer.remaining_time < timer.work_duration
    /\ timer.last_update_time = Some(now)

\* C6: a tick while Paused or Stopped returns false and leaves every field
\* of the timer unchanged.
C6_TickIdleIsNoOp ==
    [][Tick /\ timer.state # "Running" => timer' = timer /\ ~lastRet']_vars

\* C6 witness: a tick was taken on a timer paused part-way through a phase,
\* with the clock well past the reading at which the phase would have ended.
C6_Witness ==
    /\ lastOp = "tick"
    /\ lastFrom = "Paused"
    /\ timer.state = "Paused"
    /\ 0 < timer.remaining_time
    /\ timer.remaining_time < get_total_duration(timer)
    /\ now > get_total_duration(timer)

\* The clock reading of the last tick of a history, or of its start().
LastReading(h) ==
    IF h.ticks = << >> THEN h.since ELSE h.ticks[Len(h.ticks)]

\* C7: for a phase running with no command in between, remaining_time after
\* any sequence of ticks is the remaining_time at the start() minus the time
\* elapsed up to the last tick, however the time was split into ticks; and
\* the tick that reports completion is the first one at which the time
\* elapsed since the start() reaches that remaining_time.
C7_TickSplitIndependent ==
    /\ timer.state = "Running" =>
          /\ phaseRun # None
          /\ LET h == Unwrap(phaseRun) IN
             /\ timer.last_update_time = Some(LastReading(h))
             /\ timer.remaining_time = h.remaining - (LastReading(h) - h.since)
             /\ LastReading(h) - h.since < h.remaining
    /\ (lastOp = "tick" /\ lastRet) =>
          /\ phaseRun # None
          /\ LET h == Unwrap(phaseRun) IN
             /\ h.ticks # << >>
             /\ LastReading(h) - h.since >= h.remaining
             /\ \A i \in 1..(Len(h.ticks) - 1) : h.ticks[i] - h.since < h.remaining

\* C7 witness: three seconds of a work session were consumed by two ticks of
\* unequal size.
C7_Witness ==
    /\ timer.state = "Running"
    /\ phaseRun # None
    /\ LET h == Unwrap(phaseRun) IN
       /\ h.ticks = <<h.since + 1, h.since + 3>>
       /\ timer.remaining_time = h.remaining - 3

\* The history of a work session of 5 seconds started at clock reading `s`
\* on a fresh phase and ticked at the readings `ticks`.
FiveSecondWork(s, ticks) ==
    /\ timer.work_duration = 5
    /\ phaseRun = Some([session |-> "Work", since |-> s, remaining |-> 5,
                        ticks |-> ticks])

\* C8 as stated: in that history the tick 3s after start() does not complete
\* and the tick 6s after start() completes with remaining_time = 0.
C8_SecondTickLeavesZero ==
    \A s \in 0..MaxNow :
        /\ FiveSecondWork(s, <<s + 3>>) => ~lastRet /\ timer.state = "Running"
        /\ FiveSecondWork(s, <<s + 3, s + 6>>) => lastRet /\ timer.remaining_time = 0

\* C8 as amended: the tick 3s after start() does not complete and leaves 2s;
\* the tick 6s after start() completes (returns true) and the 1s overshoot is
\* discarded: remaining_time is the full duration of the break that follows,
\* which is positive, never an underflowed value.
C8_TickConvergence ==
    \A s \in 0..MaxNow :
        /\ FiveSecondWork(s, <<s + 3>>) =>
              /\ ~lastRet
              /\ timer.state = "Running"
              /\ timer.current_session = "Work"
              /\ timer.remaining_time = 2
        /\ FiveSecondWork(s, <<s + 3, s + 6>>) =>
              /\ lastOp = "tick"
              /\ lastRet
              /\ timer.state = "Stopped"
              /\ timer.current_session \in {"ShortBreak", "LongBreak"}
              /\ timer.remaining_time = get_total_duration(timer)
              /\ timer.remaining_time > 0

\* C8 witness: the second tick of the scenario has just been taken.
C8_Witness ==
    /\ FiveSecondWork(0, <<3, 6>>)
    /\ lastOp = "tick"
    /\ now = 6

\* Clock readings a tick can be given, up to one that lets any phase expire.
Readings == 0..(MaxNow + MaxWork + MaxBreak)

\* C9: skip_session on a running timer leaves the state and returns the
\* value that a tick with elapsed >= remaining_time leaves and returns.
C9_SkipEqualsExpiry ==
    [][SkipSession /\ timer.state = "Running" =>
          \A c \in Readings :
              (c >= now /\ c - Unwrap(timer.last_update_time) >= timer.remaining_time)
                  => /\ timer' = tick(timer, c).timer
                     /\ lastRet' = tick(timer, c).ret]_vars

\* C9 witness: a running work session that had been ticked part-way was
\* skipped.
C9_Witness ==
    /\ lastOp = "skip_session"
    /\ lastFrom = "Running"
    /\ lastRet
    /\ timer.current_session = "ShortBreak"
    /\ timer.pomodoros_completed = 1
    /\ now > 0

\* C10: skip_session returns true and performs exactly one completion
\* transition in every run state, whatever remaining_time is.
C10_SkipAlwaysCompletes ==
    [][SkipSession =>
          /\ lastRet'
          /\ NextPhase(timer, timer')
          /\ timer'.state = "Stopped"
          /\ timer'.last_update_time = None]_vars

\* C10 witness: a work session that was never started was skipped before any
\* time had passed.
C10_Witness ==
    /\ lastOp = "skip_session"
    /\ lastFrom = "Stopped"
    /\ lastRet
    /\ now = 0
    /\ timer.pomodoros_completed = 1
\* C11: after any sequence of commands and ticks, reset() leaves Work, the
\* full work duration, Stopped, both counters 0 and no anchor, with the
\* configured durations and cadence as constructed: the state Timer::new
\* produces from the same configuration.
C11_ResetRestoresConstructed ==
    lastOp = "reset" =>
        /\ timer.current_session = "Work"
        /\ timer.remaining_time = config.work_duration
        /\ timer.state = "Stopped"
        /\ timer.pomodoros_completed = 0
        /\ timer.break_count = 0
        /\ timer.last_update_time = None
        /\ timer.work_duration = config.work_duration
        /\ timer.short_break_duration = config.short_break_duration
        /\ timer.long_break_duration = config.long_break_duration
        /\ timer.long_break_after_pomodoros = config.long_break_after_pomodoros
        /\ timer = new(config)

\* C11 witness: a running short break was reset after time had passed.
C11_Witness ==
    /\ lastOp = "reset"
    /\ lastFrom = "Running"
    /\ lastPhase = "ShortBreak"
    /\ now > 0

\* The phase at position `i` of the cycle of a timer with cadence `n`: work
\* sessions at the odd positions, each followed by a short break, except
\* every n-th, which is followed by a long break.
CyclePhase(n, i) ==
    IF i % 2 = 1 THEN "Work"
    ELSE IF (i \div 2) % n = 0 THEN "LongBreak"
    ELSE "ShortBreak"

\* C12: on a fresh timer with cadence N whose phases are completed by
\* repeated skip_session, the phases follow the cycle (a short break after
\* each of the first N-1 work sessions, a long break after the N-th, and so
\* on every N work sessions), pomodoros_completed counts the work sessions
\* completed, and for N = 4 the first eight phases are Work, ShortBreak,
\* Work, ShortBreak, Work, ShortBreak, Work, LongBreak with
\* pomodoros_completed = 4 when the long break begins.
C12_CadenceLaw ==
    LET n == timer.long_break_after_pomodoros IN
    /\ \A i \in DOMAIN trail : trail[i] = CyclePhase(n, i)
    /\ trail[Len(trail)] = timer.current_session
    /\ timer.pomodoros_completed = Len(trail) \div 2
    /\ (n = 4 /\ Len(trail) = 8) =>
          /\ trail = <<"Work", "ShortBreak", "Work", "ShortBreak",
                       "Work", "ShortBreak", "Work", "LongBreak">>
          /\ timer.pomodoros_completed = 4

\* C12 witness: the second long break of a cadence of four has begun.
C12_Witness ==
    /\ timer.long_break_after_pomodoros = 4
    /\ Len(trail) = 16
    /\ timer.current_session = "LongBreak"
    /\ timer.pomodoros_completed = 8
    /\ lastOp = "skip_session"

\* C13: a timer constructed by Timer::new is in Work with the full work
\* duration remaining, Stopped, with both counters 0 and no anchor.
C13_NewTimer ==
    lastOp = "new" =>
        /\ timer.current_session = "Work"
        /\ timer.remaining_time = config.work_duration
        /\ timer.remaining_time = timer.work_duration
        /\ timer.state = "Stopped"
        /\ timer.pomodoros_completed = 0
        /\ timer.break_count = 0
        /\ timer.last_update_time = None

\* C13 witness: a timer just constructed whose work duration differs from
\* its break durations.
C13_Witness ==
    /\ lastOp = "new"
    /\ timer.work_duration > timer.short_break_duration
    /\ timer.work_duration > timer.long_break_duration
\* The fields of `u` that no run-state command may change are those of `t`.
SamePhaseAndCounters(t, u) ==
    /\ u.current_session = t.current_session
    /\ u.remaining_time = t.remaining_time
    /\ u.pomodoros_completed = t.pomodoros_completed
    /\ u.break_count = t.break_count
    /\ u.work_duration = t.work_duration
    /\ u.short_break_duration = t.short_break_duration
    /\ u.long_break_duration = t.long_break_duration
    /\ u.long_break_after_pomodoros = t.long_break_after_pomodoros

\* C14: pause() on a running timer sets Paused, clears the anchor and leaves
\* remaining_time, phase and counters as they were; on a paused or stopped
\* timer it changes nothing, so a second pause() in a row changes nothing.
C14_PauseOnlyWhenRunning ==
    [][Pause =>
          /\ IF timer.state = "Running"
             THEN /\ timer'.state = "Paused"
                  /\ timer'.last_update_time = None
                  /\ SamePhaseAndCounters(timer, timer')
             ELSE timer' = timer
          /\ pause(timer') = timer']_vars

\* C14 witness: a work session that had been ticked part-way was paused.
C14_Witness ==
    /\ lastOp = "pause"
    /\ lastFrom = "Running"
    /\ timer.state = "Paused"
    /\ timer.last_update_time = None
    /\ 0 < timer.remaining_time
    /\ timer.remaining_time < get_total_duration(timer)

\* C15: start() sets state = Running and last_update_time = now and changes
\* nothing else, whether the timer was running or not; called while already
\* Running it leaves remaining_time, phase, state and counters as they were.
C15_StartFrame ==
    [][Start =>
          /\ timer'.state = "Running"
          /\ timer'.last_update_time = Some(now)
          /\ SamePhaseAndCounters(timer, timer')]_vars

\* C15 witness: start() was called on a timer that was already running
\* part-way through a phase.
C15_Witness ==
    /\ lastOp = "start"
    /\ lastFrom = "Running"
    /\ timer.state = "Running"
    /\ 0 < timer.remaining_time
    /\ timer.remaining_time < get_total_duration(timer)

\* C16: resume() on a paused timer leaves the state start() leaves (Running,
\* anchor = now, remaining_time unchanged); on a stopped or running timer it
\* changes nothing.
C16_ResumeOnlyWhenPaused ==
    [][Resume =>
          IF timer.state = "Paused"
          THEN /\ timer' = start(timer, now)
               /\ timer'.state = "Running"
               /\ timer'.last_update_time = Some(now)
               /\ SamePhaseAndCounters(timer, timer')
          ELSE timer' = timer]_vars

\* C16 witness: resume() was called on a stopped timer, which stayed stopped.
C16_Witness ==
    /\ lastOp = "resume"
    /\ lastFrom = "Stopped"
    /\ timer.state = "Stopped"

\* C17: toggle_pause() has the effect of pause() when Running, of resume()
\* when Paused and of start() when Stopped: the state after it is Paused if
\* it was Running and Running otherwise, and phase, remaining_time and
\* counters are unchanged.
C17_ToggleDispatch ==
    [][TogglePause =>
          /\ timer.state = "Running" => timer' = pause(timer)
          /\ timer.state = "Paused" => timer' = resume(timer, now)
          /\ timer.state = "Stopped" => timer' = start(timer, now)
          /\ timer'.state = IF timer.state = "Running" THEN "Paused" ELSE "Running"
          /\ SamePhaseAndCounters(timer, timer')]_vars

\* C17 witness: toggle_pause() started a stopped timer.
C17_Witness ==
    /\ lastOp = "toggle_pause"
    /\ lastFrom = "Stopped"
    /\ timer.state = "Running"
    /\ timer.last_update_time # None
\* C18 as stated: a step changes current_session only if it is a completion
\* transition.
C18_PhaseChangedOnlyByCompletion ==
    [][timer'.current_session # timer.current_session => Completes]_vars

\* C18 as amended: a step changes current_session only if it is a completion
\* transition or a reset(), which sets it to Work; start, pause, resume,
\* toggle_pause and a tick that does not complete never change it.
C18_PhaseChangedOnlyByCompletionOrReset ==
    [][/\ timer'.current_session # timer.current_session
          => \/ Completes
             \/ Reset /\ timer'.current_session = "Work"
       /\ (Start \/ Pause \/ Resume \/ TogglePause \/ (Tick /\ ~lastRet'))
          => timer'.current_session = timer.current_session]_vars

\* C18 witness: reset() was called during a long break and left Work.
C18_Witness ==
    /\ lastOp = "reset"
    /\ lastPhase = "LongBreak"
    /\ timer.current_session = "Work"

\* The breaks among the phases visited: each was entered by completing a
\* work session.
BreaksIn(tr) == {i \in DOMAIN tr : tr[i] # "Work"}

\* C19: pomodoros_completed goes up by exactly one on each completion of a
\* Work phase (by tick expiry or by skip), is set to 0 by reset(), and is
\* changed by no other step; it equals the number of Work phases completed
\* since construction or the last reset.
C19_PomodorosCountWorkCompletions ==
    /\ [](timer.pomodoros_completed = Cardinality(BreaksIn(trail)))
    /\ [][/\ (Completes /\ timer.current_session = "Work")
             => timer'.pomodoros_completed = timer.pomodoros_completed + 1
          /\ timer'.pomodoros_completed # timer.pomodoros_completed
             => \/ Completes /\ timer.current_session = "Work"
                \/ Reset /\ timer'.pomodoros_completed = 0
          /\ timer'.pomodoros_completed < timer.pomodoros_completed
             => Reset]_vars

\* C19 witness: a second work session was completed by a tick expiry, after
\* a short break had been completed in between.
C19_Witness ==
    /\ lastOp = "tick"
    /\ lastRet
    /\ lastPhase = "Work"
    /\ timer.pomodoros_completed = 2
    /\ Len(trail) = 4

\* C20: break_count lies in 0 .. long_break_after_pomodoros - 1 in every
\* reachable state, is 0 during a long break, is always 0 with a cadence of
\* 1, and stays below the number of values of its 8-bit type.
C20_BreakCountInRange ==
    /\ timer.break_count \in 0..(timer.long_break_after_pomodoros - 1)
    /\ timer.current_session = "LongBreak" => timer.break_count = 0
    /\ timer.long_break_after_pomodoros = 1 => timer.break_count = 0
    /\ timer.long_break_after_pomodoros < U8Values
    /\ timer.break_count + 1 < U8Values

\* C20 witness: a long break was entered from a work session that began
\* with break_count = 1.
C20_Witness ==
    /\ timer.current_session = "LongBreak"
    /\ timer.long_break_after_pomodoros = 2
    /\ timer.pomodoros_completed = 2
    /\ timer.break_count = 0
    /\ lastPhase = "Work"

\* C21: remaining_time changes in three ways only. A tick of a running timer
\* that does not complete the phase never increases it; a completion
\* transition and reset() load a full phase duration; start(), pause(),
\* resume(), toggle_pause(), a tick of a paused or stopped timer and the
\* passing of time leave it as it was, so that it is frozen while the timer
\* is Paused or Stopped.
C21_RemainingFrame ==
    [][ /\ (Start \/ Pause \/ Resume \/ TogglePause \/ Advance)
             => timer'.remaining_time = timer.remaining_time
        /\ (Tick /\ timer.state # "Running")
             => timer'.remaining_time = timer.remaining_time
        /\ (Tick /\ timer.state = "Running" /\ ~lastRet')
             => timer'.remaining_time <= timer.remaining_time
        /\ Completes
             => timer'.remaining_time = get_total_duration(timer')
        /\ Reset
             => timer'.remaining_time = timer.work_duration
        /\ timer'.remaining_time # timer.remaining_time
             => \/ Tick /\ timer.state = "Running"
                \/ Completes
                \/ Reset ]_vars

\* C21 witness: a paused short break that had been ticked down was resumed
\* with its remaining_time as the pause left it.
C21_Witness ==
    /\ lastOp = "resume"
    /\ lastFrom = "Paused"
    /\ timer.state = "Running"
    /\ timer.current_session = "ShortBreak"
    /\ timer.remaining_time = 1
    /\ timer.short_break_duration = 2

\* C22: a tick of a running timer whose clock reading is not later than the
\* anchor (no time, or a negative time, has elapsed) counts no elapsed time:
\* it returns false, leaves remaining_time, the phase and the run state as
\* they were, and does not fault.
C22_EarlyReadingClamped ==
    (timer.state = "Running" /\ timer.last_update_time # None)
        => \A clock \in 0..Unwrap(timer.last_update_time) :
              LET r == tick(timer, clock) IN
              /\ ~r.ret
              /\ ~r.panic
              /\ r.timer.remaining_time = timer.remaining_time
              /\ r.timer.current_session = timer.current_session
              /\ r.timer.state = "Running"

\* C22 witness: a tick was taken at the very reading at which start() had
\* set the anchor, two seconds into the run of the clock, and left the
\* remaining_time that start() found.
C22_Witness ==
    /\ lastOp = "tick"
    /\ ~lastRet
    /\ timer.state = "Running"
    /\ phaseRun # None
    /\ Unwrap(phaseRun).ticks = << >>
    /\ Unwrap(phaseRun).since = 2
    /\ now = 2
    /\ timer.last_update_time = Some(2)
    /\ timer.remaining_time = Unwrap(phaseRun).remaining

\* C23: a long-break cadence of 0 is rejected before a timer can run with
\* it: no timer of a launched program has long_break_after_pomodoros = 0,
\* and no call faults on the modulo of the completion transition.
C23_CadenceZeroRejected ==
    launch # None
        => /\ timer.long_break_after_pomodoros # 0
           /\ ~panicked

\* C24: in no state of a launched program is the timer Running with a
\* remaining_time of zero.
C24_NeverRunningAtZero ==
    launch # None
        => ~(timer.state = "Running" /\ timer.remaining_time = 0)

\* The duration the configuration gives to the phase `session`.
PhaseDuration(session) ==
    CASE session = "Work"       -> config.work_duration
      [] session = "ShortBreak" -> config.short_break_duration
      [] session = "LongBreak"  -> config.long_break_duration

\* C25: in every reachable state get_progress() is the quotient of (the
\* duration of the current phase minus remaining_time) by the duration of
\* the current phase, lies within [0, 1], and is exactly 0 right after
\* construction, after a completion transition and after reset().
C25_ProgressFraction ==
    LET p == get_progress(timer) IN
    /\ ~p.panic
    /\ p.den = PhaseDuration(timer.current_session)
    /\ p.num = PhaseDuration(timer.current_session) - timer.remaining_time
    /\ p.den > 0
    /\ 0 <= p.num /\ p.num <= p.den
    /\ (lastOp \in {"new", "reset"} \/ lastRet) => p.num = 0

\* C25 witness: a tick completed a five-second work session into a
\* two-second short break, whose progress is 0 of 2.
C25_Witness ==
    /\ lastOp = "tick"
    /\ lastRet
    /\ timer.current_session = "ShortBreak"
    /\ config.work_duration = 5
    /\ get_progress(timer).num = 0
    /\ get_progress(timer).den = 2

\* C26: completion is signalled once and not replayed. The calls that
\* returned true since construction or reset() are as many as the completion
\* transitions made; a call that returned true left the timer Stopped; a tick
\* of a timer that is not Running returns false at every clock reading and
\* leaves it not Running; and the timer becomes Running again by start(),
\* resume() or toggle_pause() only. A true return is therefore followed by
\* false returns of tick() until one of these, or another skip_session(), is
\* called.
C26_SignalledOnce ==
    /\ [](/\ signals = Len(trail) - 1
          /\ lastRet => (timer.state = "Stopped" /\ lastOp \in {"tick", "skip_session"})
          /\ timer.state # "Running"
               => \A clock \in now..MaxNow :
                     /\ ~tick(timer, clock).ret
                     /\ tick(timer, clock).timer = timer)
    /\ [][ /\ (timer.state # "Running" /\ timer'.state = "Running")
                => (Start \/ Resume \/ TogglePause)
           /\ (Tick /\ lastRet')
                => (timer.state = "Running" /\ timer'.state = "Stopped")
           /\ (lastRet' /\ signals' # signals)
                => (signals' = signals + 1 /\ NextPhase(timer, timer')) ]_vars

\* C26 witness: after a tick returned true for an expired work session, a
\* later tick of the stopped timer returned false, with one true return
\* counted for one completion transition.
C26_Witness ==
    /\ lastOp = "tick"
    /\ ~lastRet
    /\ lastFrom = "Stopped"
    /\ timer.current_session = "ShortBreak"
    /\ timer.pomodoros_completed = 1
    /\ signals = 1
    /\ Len(trail) = 2
    /\ now > 0

\* The position of the colon in a displayed time.
ColonAt(text) == CHOOSE i \in 1..Len(text) : text[i] = ":"

RECURSIVE Numeral(_)
\* The number a sequence of digit characters denotes.
Numeral(field) ==
    IF field = << >> THEN 0
    ELSE Numeral(SubSeq(field, 1, Len(field) - 1)) * Len(DigitChars)
         + (CHOOSE d \in 0..(Len(DigitChars) - 1) :
                DigitChars[d + 1] = field[Len(field)])

\* C28: the displayed time is a minutes field, a colon and a seconds field
\* of digits. The seconds field has two digits and denotes the whole seconds
\* of remaining_time modulo 60, within 0..59; the minutes field denotes the
\* whole seconds divided by 60, so that minutes * 60 + seconds is the number
\* of seconds remaining; the minutes field has two digits up to 99:59 and
\* more digits, with no leading zero and nothing cut off, beyond.
C28_DisplayTime ==
    shown # None =>
        LET text    == Unwrap(shown)
            colon   == ColonAt(text)
            minutes == SubSeq(text, 1, colon - 1)
            seconds == SubSeq(text, colon + 1, Len(text))
            secs    == timer.remaining_time
        IN  /\ \E i \in 1..Len(text) : text[i] = ":"
            /\ \A i \in 1..Len(text) :
                  i # colon => \E d \in 1..Len(DigitChars) : text[i] = DigitChars[d]
            /\ Len(seconds) = 2
            /\ Numeral(seconds) = secs % 60
            /\ Numeral(seconds) \in 0..59
            /\ Numeral(minutes) = secs \div 60
            /\ Numeral(minutes) * 60 + Numeral(seconds) = secs
            /\ secs <= 99 * 60 + 59 => Len(minutes) = 2
            /\ secs > 99 * 60 + 59 => (Len(minutes) > 2 /\ minutes[1] # "0")

\* C28 witness: a remaining time of 6001 seconds was displayed as 100:01.
C28_Witness ==
    /\ timer.remaining_time = 6001
    /\ shown = Some(<<"1", "0", "0", ":", "0", "1">>)

\* C27: with a valid configuration no call faults. In every reachable state
\* no call has panicked; tick() at the present and at every later clock
\* reading and skip_session() return without panicking, so that remaining_time
\* - elapsed is never taken below zero; start(), pause(), resume(),
\* toggle_pause() and reset() leave a timer in one of the three run states;
\* get_progress() does not take total_duration - remaining_time below zero
\* and divides by a positive duration; and get_display_time() returns a text.
C27_NoFault ==
    /\ ~panicked
    /\ \A clock \in now..MaxNow :
          /\ ~tick(timer, clock).panic
          /\ tick(timer, clock).timer.remaining_time \in Nat
          /\ start(timer, clock).state \in TimerState
          /\ resume(timer, clock).state \in TimerState
          /\ toggle_pause(timer, clock).state \in TimerState
    /\ ~skip_session(timer).panic
    /\ pause(timer).state \in TimerState
    /\ reset(timer).state \in TimerState
    /\ ~get_progress(timer).panic
    /\ get_progress(timer).den > 0
    /\ checked_sub(get_total_duration(timer), timer.remaining_time) # None
    /\ Len(get_display_time(timer)) > 0

\* C27 witness: a tick found a running five-second work session expired
\* with more time elapsed than remained (two seconds were left and three
\* had passed), and returned true without fault.
C27_Witness ==
    /\ lastOp = "tick"
    /\ lastRet
    /\ ~panicked
    /\ lastPhase = "Work"
    /\ config.work_duration = 5
    /\ phaseRun # None
    /\ Unwrap(phaseRun).since = 0
    /\ Unwrap(phaseRun).ticks = <<1, 3, 6>>

\* C29: the default configuration, which is the one loaded when the program
\* is launched with no option and no configuration file, has 25 minutes of
\* work, a short break of 5 minutes and a long break of 15 minutes, with
\* no_sound and no_clock false.
C29_DefaultConfiguration ==
    (/\ launch # None
     /\ Unwrap(launch).file = None
     /\ Unwrap(launch).cmd.work_duration = None
     /\ Unwrap(launch).cmd.short_break = None
     /\ Unwrap(launch).cmd.long_break = None
     /\ Unwrap(launch).cmd.long_break_after = None
     /\ ~Unwrap(launch).cmd.no_sound
     /\ ~Unwrap(launch).cmd.no_clock
     /\ ~Unwrap(launch).cmd.focus)
        => /\ Unwrap(launch).config = Config_default
           /\ Unwrap(launch).config.work_minutes = 25
           /\ Unwrap(launch).config.small_break_minutes = 5
           /\ Unwrap(launch).config.long_break_minutes = 15
           /\ ~Unwrap(launch).config.no_sound
           /\ ~Unwrap(launch).config.no_clock

\* C30: start() called on a timer that is already Running does not disturb
\* the time accounting: a tick at the present or at any later clock reading
\* leaves the same remaining_time, the same phase and the same returned flag
\* after the call as it would have left without it, so that the time elapsed
\* since the last tick is neither lost nor counted twice.
C30_RearmKeepsAccount ==
    [][ (Start /\ timer.state = "Running")
           => \A clock \in now..MaxNow :
                 /\ tick(timer', clock).ret = tick(timer, clock).ret
                 /\ tick(timer', clock).timer.remaining_time
                       = tick(timer, clock).timer.remaining_time
                 /\ tick(timer', clock).timer.current_session
                       = tick(timer, clock).timer.current_session ]_vars

\* C31: whenever the timer is Stopped, remaining_time is the full configured
\* duration of the current phase; and the timer is Stopped by construction,
\* by a completion transition (a tick that returned true, or skip_session())
\* or by reset() only.
C31_StoppedHoldsFullDuration ==
    /\ timer.state = "Stopped"
         => timer.remaining_time = PhaseDuration(timer.current_session)
    /\ (timer.state = "Stopped" /\ lastFrom # "Stopped")
         => \/ lastOp \in {"reset", "skip_session"}
            \/ lastOp = "tick" /\ lastRet

\* C31 witness: a stopped two-second short break, entered by the completion
\* of the work session, was ticked again four seconds into the run of the
\* clock and still holds its two seconds.
C31_Witness ==
    /\ timer.state = "Stopped"
    /\ timer.current_session = "ShortBreak"
    /\ config.short_break_duration = 2
    /\ config.work_duration = 1
    /\ timer.remaining_time = 2
    /\ lastOp = "tick"
    /\ lastFrom = "Stopped"
    /\ signals = 1
    /\ now = 4

\* C32: in every reachable state break_count equals pomodoros_completed
\* modulo long_break_after_pomodoros.
C32_BreakCountIsRemainder ==
    timer.long_break_after_pomodoros > 0
        /\ timer.break_count
              = timer.pomodoros_completed % timer.long_break_after_pomodoros

\* C32 witness: with a cadence of 2, a tick completed the first work session
\* since construction or reset into a short break, and both counters read 1.
C32_Witness ==
    /\ timer.long_break_after_pomodoros = 2
    /\ timer.pomodoros_completed = 1
    /\ timer.break_count = 1
    /\ timer.current_session = "ShortBreak"
    /\ lastOp = "tick"
    /\ lastRet
    /\ Len(trail) = 2
    /\ now >= 2

\* C33: the kind of break agrees with the count of work sessions. In every
\* reachable state a LongBreak has pomodoros_completed > 0 and a multiple of
\* long_break_after_pomodoros, and a ShortBreak has a pomodoros_completed
\* that is not a multiple of it.
C33_BreakKindMatchesCount ==
    /\ timer.current_session = "LongBreak"
         => /\ timer.pomodoros_completed > 0
            /\ timer.pomodoros_completed % timer.long_break_after_pomodoros = 0
    /\ timer.current_session = "ShortBreak"
         => timer.pomodoros_completed % timer.long_break_after_pomodoros # 0

\* C33 witness: with a cadence of 2, the second work session was completed
\* into a long break after a short break had followed the first.
C33_Witness ==
    /\ timer.current_session = "LongBreak"
    /\ timer.long_break_after_pomodoros = 2
    /\ timer.pomodoros_completed = 2
    /\ trail = <<"Work", "ShortBreak", "Work", "LongBreak">>

\* C34: one tick makes at most one completion transition, however much time
\* has elapsed. A tick of a running timer at any later clock reading that
\* returns true leaves exactly the successor of the phase it found, Stopped,
\* with no anchor and with its full duration; and the tick taken last, if it
\* returned true, added one phase to the history and left it Stopped with
\* the configured duration in full.
C34_OneTransitionPerTick ==
    /\ timer.state = "Running"
         => \A clock \in now..MaxNow :
               LET r == tick(timer, clock) IN
               r.ret => /\ NextPhase(timer, r.timer)
                        /\ r.timer.state = "Stopped"
                        /\ r.timer.last_update_time = None
                        /\ r.timer.remaining_time
                              = PhaseDuration(r.timer.current_session)
    /\ (lastOp = "tick" /\ lastRet)
         => /\ timer.state = "Stopped"
            /\ timer.remaining_time = PhaseDuration(timer.current_session)
            /\ Len(trail) >= 2
            /\ trail[Len(trail)] = timer.current_session
            /\ trail[Len(trail) - 1] = lastPhase
            /\ signals = Len(trail) - 1

\* C34 witness: a one-second work session started at clock 0 was ticked for
\* the first time at clock 3, when the time of the work session and of the
\* whole one-second short break after it had passed: the tick returned true
\* and left the short break Stopped with its full second.
C34_Witness ==
    /\ lastOp = "tick"
    /\ lastRet
    /\ config.work_duration = 1
    /\ config.short_break_duration = 1
    /\ phaseRun # None
    /\ Unwrap(phaseRun).since = 0
    /\ Unwrap(phaseRun).ticks = <<3>>
    /\ timer.current_session = "ShortBreak"
    /\ timer.state = "Stopped"
    /\ timer.remaining_time = 1
    /\ trail = <<"Work", "ShortBreak">>

\* C35: liveness. While the clock keeps advancing and tick() keeps being
\* called, and no pause, reset or skip is issued, a Running timer does not
\* stay Running for ever: eventually a tick returns true and leaves the phase
\* completed and the timer Stopped.
C35_RunningPhaseCompletes ==
    (timer.state = "Running")
        ~> (lastOp = "tick" /\ lastRet /\ timer.state = "Stopped")

\* C35 witness: a five-second work session that was started at clock 1 and
\* ticked at 2 and 4 was completed by the tick at clock 6.
C35_Witness ==
    /\ lastOp = "tick"
    /\ lastRet
    /\ timer.state = "Stopped"
    /\ config.work_duration = 5
    /\ lastPhase = "Work"
    /\ phaseRun # None
    /\ Unwrap(phaseRun).since = 1
    /\ Unwrap(phaseRun).ticks = <<2, 4, 6>>

\* C36: when the configuration is loaded from a file and a command line,
\* each of the work duration, the short break, the long break and the
\* long-break cadence that is given on the command line is the value loaded,
\* and each that is not given is loaded with the value of the file.
C36_CommandLineOverridesFile ==
    (launch # None /\ Unwrap(launch).file # None)
        => LET cmd    == Unwrap(launch).cmd
               file   == Unwrap(Unwrap(launch).file)
               loaded == Unwrap(launch).config
           IN  /\ loaded.work_minutes
                     = IF cmd.work_duration = None THEN file.work_minutes
                       ELSE Unwrap(cmd.work_duration)
               /\ loaded.small_break_minutes
                     = IF cmd.short_break = None THEN file.small_break_minutes
                       ELSE Unwrap(cmd.short_break)
               /\ loaded.long_break_minutes
                     = IF cmd.long_break = None THEN file.long_break_minutes
                       ELSE Unwrap(cmd.long_break)
               /\ loaded.tomatoes_per_set
                     = IF cmd.long_break_after = None THEN file.tomatoes_per_set
                       ELSE Unwrap(cmd.long_break_after)
               /\ timer.work_duration = loaded.work_minutes * SecsPerMinute

\* C37: a key pressed while the help popup is shown closes the help and does
\* nothing else. After such a key the help is closed, and the timer (phase,
\* remaining_time, run state, anchor and counters), the focused menu item
\* and the quit flag are what the key found, whichever key it was.
C37_HelpSwallowsKey ==
    lastKey # None =>
        LET k == Unwrap(lastKey) IN
        /\ k.ui.show_help
        /\ ~ui.show_help
        /\ timer = k.timer
        /\ ui.focused_menu_item = k.ui.focused_menu_item
        /\ ui.should_quit = k.ui.should_quit
        /\ ~ui.should_quit

\* C37 witness: with the help shown over a running and partly elapsed work
\* session, the key s was pressed: the help is closed and the work session
\* runs on.
C37_Witness ==
    /\ lastKey # None
    /\ Unwrap(lastKey).key = "s"
    /\ ~ui.show_help
    /\ timer.state = "Running"
    /\ timer.current_session = "Work"
    /\ timer.remaining_time = 1
    /\ config.work_duration = 2
    /\ ui.focused_menu_item = "Pause"
====
